---- MODULE Spec2Model ----
(***************************************************************************)
(* Model of the YewChat client component (src/components/chat.rs): the     *)
(* Chat component's state, its constructor `create`, its message handler   *)
(* `update`, the key-press callback of `view`, and the serde (de)coding    *)
(* of the wire frames.                                                     *)
(*                                                                         *)
(* A Rust String is modelled by its content: either plain characters       *)
(* (text that is not a JSON document) or the text of a JSON document,      *)
(* represented by the document that serde_json's parser reads from it.     *)
(***************************************************************************)
EXTENDS Integers, Sequences, FiniteSets, TLC

\* ------------------------------------------------------------------ bounds
MaxLog   == 2      \* longest `messages`, and most valid message frames tracked
MaxSends == 1      \* most try_send calls of SubmitMessage in one run; once they
                   \* are made the input field is edited no more
MaxName  == 2      \* longest name given to get_user_color in SpecColor

\* ------------------------------------------------------- Option and Result
None    == [some |-> FALSE]
Some(x) == [some |-> TRUE, v |-> x]
Err     == [ok |-> FALSE]
Ok(x)   == [ok |-> TRUE, v |-> x]

\* ------------------------------------------------------------------- texts
Plain(cs) == [plain |-> cs]   \* characters, not a JSON document
Doc(j)    == [doc |-> j]      \* the text of the JSON document j

\* JSON documents: null, a number, a string, an array, an object
JNull   == [null |-> TRUE]
JNum(n) == [num |-> n]
JStr(s) == [str |-> s]
JArr(a) == [arr |-> a]
JObj(f) == [obj |-> f]

\* x is the text or document built by the constructor named k
Is(x, k) == k \in DOMAIN x

\* `c as usize`: the code point of a character
CodePoint(c) ==
    CASE c = " " -> 32
      [] c = "A" -> 65
      [] c = "B" -> 66
      [] c = "C" -> 67
      [] c = "Q" -> 81
      [] c = "h" -> 104
      [] c = "i" -> 105
      [] c = "é" -> 233

\* char::is_whitespace, as str::trim uses it
is_whitespace(c) == c = " "

RECURSIVE trim_start(_)
trim_start(cs) ==
    IF cs # <<>> /\ is_whitespace(Head(cs)) THEN trim_start(Tail(cs)) ELSE cs

RECURSIVE trim_end(_)
trim_end(cs) ==
    IF cs # <<>> /\ is_whitespace(cs[Len(cs)])
    THEN trim_end(SubSeq(cs, 1, Len(cs) - 1))
    ELSE cs

\* trim as trim_start alone
trim_start_only(cs) == trim_start(cs)

\* str::trim
trim(cs) == trim_end(trim_start(cs))

\* ------------------------------------------------------------ colour
colors ==
    << "#EF4444", "#F97316", "#F59E0B", "#EAB308",
       "#84CC16", "#22C55E", "#10B981", "#14B8A6",
       "#06B6D4", "#0EA5E9", "#3B82F6", "#6366F1",
       "#8B5CF6", "#A855F7", "#D946EF", "#EC4899" >>

RECURSIVE CharSum(_)
CharSum(cs) == IF cs = <<>> THEN 0 ELSE CodePoint(Head(cs)) + CharSum(Tail(cs))

\* get_user_color summing the bytes of the name (name.bytes()) instead of
\* its chars: the two bytes of "é" are 195 and 169
get_user_color_bytes(name) ==
    LET RECURSIVE ByteSum(_)
        ByteSum(cs) ==
            IF cs = <<>> THEN 0
            ELSE (IF Head(cs) = "é" THEN 195 + 169 ELSE CodePoint(Head(cs)))
                   + ByteSum(Tail(cs))
    IN  colors[(ByteSum(name.plain) % Len(colors)) + 1]

\* Chat::get_user_color; `name` is a plain text
get_user_color(name) == colors[(CharSum(name.plain) % Len(colors)) + 1]

\* ------------------------------------------------------------ wire format
\* #[serde(rename_all = "lowercase")] enum MsgTypes
MsgTypes == {"Users", "Register", "Message"}
VariantName(variant) ==
    CASE variant = "Users"    -> <<"u", "s", "e", "r", "s">>
      [] variant = "Register" -> <<"r", "e", "g", "i", "s", "t", "e", "r">>
      [] variant = "Message"  -> <<"m", "e", "s", "s", "a", "g", "e">>

\* Deserialize for MsgTypes from a JSON string or any non-object value: the
\* string must name a variant.  (The frames enumerated below carry a string,
\* a number or nothing as messageType.)
de_MsgTypes(j) ==
    LET named(s) == {m \in MsgTypes : Plain(VariantName(m)) = s}
    IN  IF Is(j, "str") /\ named(j.str) # {}
        THEN Ok(CHOOSE m \in named(j.str) : TRUE)
        ELSE Err

\* Deserialize for String
de_String(j) == IF Is(j, "str") THEN Ok(j.str) ELSE Err

\* Deserialize for Option<String>: null is None
de_OptString(j) ==
    IF Is(j, "null") THEN Ok(None)
    ELSE IF Is(j, "str") THEN Ok(Some(j.str))
    ELSE Err

\* Deserialize for Option<Vec<String>>: null is None
de_OptVecString(j) ==
    IF Is(j, "null") THEN Ok(None)
    ELSE IF Is(j, "arr") /\ \A i \in 1..Len(j.arr) : Is(j.arr[i], "str")
    THEN Ok(Some([i \in 1..Len(j.arr) |-> j.arr[i].str]))
    ELSE Err

\* a field of a JSON object; a missing field of Option type reads as null
Field(obj, k) == IF k \in DOMAIN obj THEN obj[k] ELSE JNull

\* serde_json::from_str::<WebSocketMessage>, #[serde(rename_all = "camelCase")]
from_str_WebSocketMessage(s) ==
    IF ~Is(s, "doc") \/ ~Is(s.doc, "obj") THEN Err
    ELSE LET obj == s.doc.obj
             mt  == IF "messageType" \in DOMAIN obj
                    THEN de_MsgTypes(obj["messageType"]) ELSE Err
             da  == de_OptVecString(Field(obj, "dataArray"))
             d   == de_OptString(Field(obj, "data"))
         IN  IF mt.ok /\ da.ok /\ d.ok
             THEN Ok([message_type |-> mt.v, data_array |-> da.v, data |-> d.v])
             ELSE Err

\* serde_json::from_str::<MessageData>
from_str_MessageData(s) ==
    IF ~Is(s, "doc") \/ ~Is(s.doc, "obj") THEN Err
    ELSE LET obj == s.doc.obj
             f   == IF "from" \in DOMAIN obj THEN de_String(obj["from"]) ELSE Err
             m   == IF "message" \in DOMAIN obj
                    THEN de_String(obj["message"]) ELSE Err
         IN  IF f.ok /\ m.ok THEN Ok([from |-> f.v, message |-> m.v]) ELSE Err

ser_OptString(o) == IF o.some THEN JStr(o.v) ELSE JNull
ser_OptVecString(o) ==
    IF o.some THEN JArr([i \in 1..Len(o.v) |-> JStr(o.v[i])]) ELSE JNull

\* serde_json::to_string(&WebSocketMessage)
to_string_WebSocketMessage(m) ==
    Doc(JObj([messageType |-> JStr(Plain(VariantName(m.message_type))),
              dataArray   |-> ser_OptVecString(m.data_array),
              data        |-> ser_OptString(m.data)]))

\* ------------------------------------------------------------------ inputs
A == Plain(<<"A">>)
B == Plain(<<"B">>)
C == Plain(<<"C">>)
hi == Plain(<<"h", "i">>)

\* the name the user logged in with
Usernames  == {A}
\* the dataArray of the users frames delivered
NameLists  == {<<>>, <<A>>, <<A, B>>, <<B, C>>, <<A, A>>}
\* the texts the user leaves in the input field: "", "   ", " hi "
InputTexts == {<<>>, <<" ", " ", " ">>, <<" ", "h", "i", " ">>}
ChatMessages == {[from |-> f, message |-> hi] : f \in {A, C}}

\* the JSON text of a ChatMessage, as a peer or the server writes it
MessageDataText(m) == Doc(JObj([from |-> JStr(m.from), message |-> JStr(m.message)]))

WsFrame(kind, da, d) ==
    Doc(JObj([messageType |-> JStr(Plain(VariantName(kind))), dataArray |-> da, data |-> d]))

UsersFrames ==
    {WsFrame("Users", JArr([i \in 1..Len(l) |-> JStr(l[i])]), JNull) : l \in NameLists}
      \cup {Doc(JObj([messageType |-> JStr(Plain(VariantName("Users")))]))}
RegisterFrames ==
    {WsFrame("Register", JNull, JStr(A)),
     Doc(JObj([messageType |-> JStr(Plain(VariantName("Register"))),
               dataArray |-> JArr(<<JStr(B)>>)]))}
ValidMessageFrames ==
    {WsFrame("Message", JNull, JStr(MessageDataText(m))) : m \in ChatMessages}
BadMessageFrames ==
    {WsFrame("Message", JNull, JNull),
     WsFrame("Message", JNull, JStr(hi)),
     WsFrame("Message", JNull, JStr(Doc(JObj([from |-> JStr(A)]))))}
UnknownKindFrames ==
    {Doc(JObj([messageType |-> JStr(hi), dataArray |-> JNull, data |-> JNull]))}
UndecodableFrames ==
    {Plain(<<>>), hi, Doc(JObj([data |-> JStr(A)])),
     WsFrame("Users", JArr(<<JNum(1)>>), JNull)}

InboundFrames ==
    UsersFrames \cup RegisterFrames \cup ValidMessageFrames \cup BadMessageFrames
      \cup UnknownKindFrames \cup UndecodableFrames

Keys == {[key |-> "Enter", shift |-> FALSE], [key |-> "Enter", shift |-> TRUE],
         [key |-> "h", shift |-> FALSE]}

\* ------------------------------------------------------------------- state
VARIABLES
    username,    \* user.username of the User context
    mounted,     \* the component has been created
    users,       \* Chat.users: sequence of UserProfile
    messages,    \* Chat.messages: sequence of MessageData
    dark_mode,   \* Chat.dark_mode
    chat_input,  \* the value of the input element behind Chat.chat_input
    tx,          \* the calls of wss.tx.try_send so far, each with its result
    panicked,    \* an unwrap() has panicked: the component handles no more events
    last,        \* the last event handled: the Msg, its origin, what update returned
    arrived,     \* the ChatMessages of the valid message frames delivered so far
    cleared      \* a ClearChat has been raised (arrived is no longer tracked)

vars == <<username, mounted, users, messages, dark_mode, chat_input, tx, panicked,
          last, arrived, cleared>>

Init ==
    /\ username \in Usernames
    /\ mounted = FALSE
    /\ users = <<>>
    /\ messages = <<>>
    /\ dark_mode = FALSE
    /\ chat_input = <<>>
    /\ tx = <<>>
    /\ panicked = FALSE
    /\ last = [msg |-> "none", src |-> "none", ret |-> "none"]
    /\ arrived = <<>>
    /\ cleared = FALSE

\* RegisterMessage without the username
RegisterMessage_no_data ==
    [message_type |-> "Register", data |-> None, data_array |-> None]

\* the WebSocketMessage that create builds
RegisterMessage ==
    [message_type |-> "Register", data |-> Some(username), data_array |-> None]

\* create with try_send(..).unwrap(): a failed send panics
create_unwrap ==
    /\ ~mounted
    /\ mounted' = TRUE
    /\ \E ok \in BOOLEAN :
         /\ tx' = Append(tx, [frame |-> to_string_WebSocketMessage(RegisterMessage),
                              ok |-> ok])
         /\ panicked' = ~ok
    /\ users' = <<>>
    /\ messages' = <<>>
    /\ dark_mode' = FALSE
    /\ last' = [msg |-> "none", src |-> "create", ret |-> "none"]
    /\ UNCHANGED <<username, chat_input, arrived, cleared>>

\* Chat::create: one try_send of the register frame, whatever its result
create ==
    /\ ~mounted
    /\ mounted' = TRUE
    /\ \E ok \in BOOLEAN :
         tx' = Append(tx, [frame |-> to_string_WebSocketMessage(RegisterMessage),
                           ok |-> ok])
    /\ users' = <<>>
    /\ messages' = <<>>
    /\ dark_mode' = FALSE
    /\ last' = [msg |-> "none", src |-> "create", ret |-> "none"]
    /\ UNCHANGED <<username, chat_input, panicked, arrived, cleared>>

\* a failed unwrap(): the handler is abandoned where it stands
Panic(src, msg) ==
    /\ panicked' = TRUE
    /\ last' = [msg |-> msg, src |-> src, ret |-> "panic"]
    /\ UNCHANGED <<users, messages, dark_mode, chat_input, tx>>

\* Option::unwrap_or_default on data_array
unwrap_or_default(o) == IF o.some THEN o.v ELSE <<>>

\* UsersArm extending the roster instead of replacing it
UsersArm_extend(msg) ==
    LET users_from_message == unwrap_or_default(msg.data_array)
    IN  users \o [i \in 1..Len(users_from_message) |->
                    [name  |-> users_from_message[i],
                     color |-> get_user_color(users_from_message[i])]]

\* UsersArm putting the new profiles in front of the roster it has
UsersArm_prepend(msg) ==
    LET users_from_message == unwrap_or_default(msg.data_array)
    IN  [i \in 1..Len(users_from_message) |->
            [name  |-> users_from_message[i],
             color |-> get_user_color(users_from_message[i])]] \o users

\* the MsgTypes::Users arm: the new value of Chat.users
UsersArm(msg) ==
    LET users_from_message == unwrap_or_default(msg.data_array)
    IN  [i \in 1..Len(users_from_message) |->
            [name  |-> users_from_message[i],
             color |-> get_user_color(users_from_message[i])]]

\* DefaultArm asking for a re-render
DefaultArm_render == "true"

\* the `_` arm of the match on message_type: what update returns
DefaultArm == "false"

\* update, Msg::HandleMsg(s)
HandleMsg(src, s) ==
    LET r == from_str_WebSocketMessage(s)
    IN  IF ~r.ok THEN Panic(src, "HandleMsg")
        ELSE IF r.v.message_type = "Users" THEN
               /\ users' = UsersArm(r.v)
               /\ last' = [msg |-> "HandleMsg", src |-> src, ret |-> "true"]
               /\ UNCHANGED <<messages, dark_mode, chat_input, tx, panicked>>
        ELSE IF r.v.message_type = "Message" THEN
               IF ~r.v.data.some THEN Panic(src, "HandleMsg")
               ELSE LET message_data == from_str_MessageData(r.v.data.v)
                    IN  IF ~message_data.ok THEN Panic(src, "HandleMsg")
                        ELSE /\ Len(messages) < MaxLog
                             /\ messages' = Append(messages, message_data.v)
                             /\ last' = [msg |-> "HandleMsg", src |-> src, ret |-> "true"]
                             /\ UNCHANGED <<users, dark_mode, chat_input, tx, panicked>>
        ELSE /\ last' = [msg |-> "HandleMsg", src |-> src, ret |-> DefaultArm]
             /\ UNCHANGED <<users, messages, dark_mode, chat_input, tx, panicked>>

\* SubmitEnvelope with the message type of create's envelope
SubmitEnvelope_register(value) ==
    [message_type |-> "Register", data |-> Some(Plain(value)), data_array |-> None]

\* SubmitEnvelope carrying the JSON text of {from: username, message: value}
SubmitEnvelope_json(value) ==
    [message_type |-> "Message",
     data |-> Some(MessageDataText([from |-> username, message |-> Plain(value)])),
     data_array |-> None]

\* the WebSocketMessage that SubmitMessage builds from the trimmed input
SubmitEnvelope(value) ==
    [message_type |-> "Message", data |-> Some(Plain(value)), data_array |-> None]

\* the number of try_send calls made by SubmitMessage so far
Submits == Len(tx) - 1

\* SubmitMessage without input.set_value("")
SubmitMessage_keep_input(src) ==
    LET value == trim(chat_input)
    IN  /\ IF value # <<>>
           THEN /\ Submits < MaxSends
                /\ \E ok \in BOOLEAN :
                     tx' = Append(tx, [frame |-> to_string_WebSocketMessage(SubmitEnvelope(value)),
                                       ok |-> ok])
                /\ chat_input' = chat_input
           ELSE UNCHANGED <<tx, chat_input>>
        /\ last' = [msg |-> "SubmitMessage", src |-> src, ret |-> "false"]
        /\ UNCHANGED <<users, messages, dark_mode, panicked>>

\* update, Msg::SubmitMessage
SubmitMessage(src) ==
    LET value == trim(chat_input)
    IN  /\ IF value # <<>>
           THEN /\ Submits < MaxSends
                /\ \E ok \in BOOLEAN :
                     tx' = Append(tx, [frame |-> to_string_WebSocketMessage(SubmitEnvelope(value)),
                                       ok |-> ok])
                /\ chat_input' = <<>>
           ELSE UNCHANGED <<tx, chat_input>>
        /\ last' = [msg |-> "SubmitMessage", src |-> src, ret |-> "false"]
        /\ UNCHANGED <<users, messages, dark_mode, panicked>>

\* ToggleDarkMode switching the dark mode on, never off
ToggleDarkMode_set(src) ==
    /\ dark_mode' = TRUE
    /\ last' = [msg |-> "ToggleDarkMode", src |-> src, ret |-> "true"]
    /\ UNCHANGED <<users, messages, chat_input, tx, panicked>>

\* update, Msg::ToggleDarkMode
ToggleDarkMode(src) ==
    /\ dark_mode' = ~dark_mode
    /\ last' = [msg |-> "ToggleDarkMode", src |-> src, ret |-> "true"]
    /\ UNCHANGED <<users, messages, chat_input, tx, panicked>>

\* ClearChat as messages.pop(): only the newest entry goes
ClearChat_pop(src) ==
    /\ messages' = SubSeq(messages, 1, Len(messages) - 1)
    /\ last' = [msg |-> "ClearChat", src |-> src, ret |-> "true"]
    /\ UNCHANGED <<users, dark_mode, chat_input, tx, panicked>>

\* ClearChat emptying the roster along with the log
ClearChat_all(src) ==
    /\ messages' = <<>>
    /\ users' = <<>>
    /\ last' = [msg |-> "ClearChat", src |-> src, ret |-> "true"]
    /\ UNCHANGED <<dark_mode, chat_input, tx, panicked>>

\* update, Msg::ClearChat
ClearChat(src) ==
    /\ messages' = <<>>
    /\ last' = [msg |-> "ClearChat", src |-> src, ret |-> "true"]
    /\ UNCHANGED <<users, dark_mode, chat_input, tx, panicked>>

\* user_color with unwrap_or_default() in place of the computed colour
user_color_no_fallback(m) ==
    LET found == {i \in 1..Len(users) : users[i].name = m.from}
    IN  IF found # {}
        THEN users[CHOOSE i \in found : \A j \in found : i <= j].color
        ELSE ""

\* Chat::view: the colour shown with the message m: that of the first
\* profile of the roster named m.from, or else get_user_color(m.from)
user_color(m) ==
    LET found == {i \in 1..Len(users) : users[i].name = m.from}
    IN  IF found # {}
        THEN users[CHOOSE i \in found : \A j \in found : i <= j].color
        ELSE get_user_color(m.from)

\* the decoded ChatMessage of a valid message frame, <<>> for any other frame
ValidMessageOf(s) ==
    LET r == from_str_WebSocketMessage(s)
    IN  IF r.ok /\ r.v.message_type = "Message" /\ r.v.data.some
           /\ from_str_MessageData(r.v.data.v).ok
        THEN <<from_str_MessageData(r.v.data.v).v>>
        ELSE <<>>

\* the record of the valid message frames delivered, kept until a ClearChat
Arrive(s) ==
    IF cleared THEN arrived' = arrived
    ELSE /\ Len(arrived) + Len(ValidMessageOf(s)) <= MaxLog
         /\ arrived' = arrived \o ValidMessageOf(s)

\* the EventBus bridge delivers an inbound frame as Msg::HandleMsg
FrameArrives(s) ==
    /\ mounted /\ ~panicked
    /\ HandleMsg("bus", s)
    /\ Arrive(s)
    /\ UNCHANGED <<username, mounted, cleared>>

\* the Send button: onclick raises Msg::SubmitMessage
ClickSend ==
    /\ mounted /\ ~panicked
    /\ SubmitMessage("click")
    /\ UNCHANGED <<username, mounted, arrived, cleared>>

\* the onkeypress callback of the input: an unshifted Enter raises
\* Msg::SubmitMessage, any other key raises Msg::HandleMsg("")
KeyPress(e) ==
    /\ mounted /\ ~panicked
    /\ IF e.key = "Enter" /\ ~e.shift
       THEN SubmitMessage("key")
       ELSE HandleMsg("key", Plain(<<>>))
    /\ UNCHANGED <<username, mounted, arrived, cleared>>

\* the dark-mode button: onclick raises Msg::ToggleDarkMode
ClickToggleDark ==
    /\ mounted /\ ~panicked
    /\ ToggleDarkMode("click")
    /\ UNCHANGED <<username, mounted, arrived, cleared>>

\* the clear-chat button: onclick raises Msg::ClearChat
ClickClear ==
    /\ mounted /\ ~panicked
    /\ ClearChat("click")
    /\ cleared' = TRUE
    /\ arrived' = <<>>
    /\ UNCHANGED <<username, mounted>>

\* the user changes the text of the input element without a key press
\* (paste, drop, autofill); followed while the component can still read it
EditInput(text) ==
    /\ mounted /\ ~panicked
    /\ Submits < MaxSends
    /\ chat_input' = text
    /\ UNCHANGED <<username, mounted, users, messages, dark_mode, tx, panicked, last,
                   arrived, cleared>>

\* A frame delivered to a component that has panicked is never handled: it
\* only enters the record of what was delivered.  (A frame that is not a
\* valid message frame, or a click or key press other than the clear button,
\* then changes nothing at all: a stuttering step.)
FrameUnhandled(s) ==
    /\ mounted /\ panicked
    /\ ValidMessageOf(s) # <<>>
    /\ ~cleared
    /\ Arrive(s)
    /\ UNCHANGED <<username, mounted, users, messages, dark_mode, chat_input, tx,
                   panicked, last, cleared>>

\* the clear-chat button on a component that has panicked
ClearUnhandled ==
    /\ mounted /\ panicked
    /\ cleared' = TRUE
    /\ arrived' = <<>>
    /\ UNCHANGED <<username, mounted, users, messages, dark_mode, chat_input, tx,
                   panicked, last>>

Next ==
    \/ create
    \/ \E s \in InboundFrames : FrameArrives(s)
    \/ ClickSend
    \/ \E e \in Keys : KeyPress(e)
    \/ ClickToggleDark
    \/ ClickClear
    \/ \E text \in InputTexts : EditInput(text)
    \/ \E s \in InboundFrames : FrameUnhandled(s)
    \/ ClearUnhandled

Spec == Init /\ [][Next]_vars

\* ------------------------------------------- get_user_color on many names
\* the names given to get_user_color: every text of at most MaxName
\* characters, the empty name and names with a non-ASCII character included
NameChars  == {"A", "Q", "i", "é"}
ColorNames == {Plain(cs) : cs \in UNION {[1..n -> NameChars] : n \in 0..MaxName}}

\* the first users frame of the session names any two of them: the Users
\* arm calls get_user_color on each name
ColorFrameArrives ==
    \E n1, n2 \in ColorNames :
        users = <<>> /\ FrameArrives(WsFrame("Users", JArr(<<JStr(n1), JStr(n2)>>), JNull))

ColorNext == create \/ ColorFrameArrives

SpecColor == Init /\ [][ColorNext]_vars

\* -------------------------------------------------------------- properties
\* what the specification calls roster, log and displayMode
StateUnchanged == users' = users /\ messages' = messages /\ dark_mode' = dark_mode

\* the kinds of frame the properties speak of, read off the frame's text
NotEnvelope(s)  == ~from_str_WebSocketMessage(s).ok
KindOf(s)       == from_str_WebSocketMessage(s).v.message_type
BadMessage(s)   == /\ from_str_WebSocketMessage(s).ok
                   /\ KindOf(s) = "Message"
                   /\ ValidMessageOf(s) = <<>>
UnknownKind(s)  == /\ Is(s, "doc") /\ Is(s.doc, "obj")
                   /\ "messageType" \in DOMAIN s.doc.obj
                   /\ Is(s.doc.obj["messageType"], "str")
                   /\ s.doc.obj["messageType"].str \notin
                        {Plain(<<"u", "s", "e", "r", "s">>),
                         Plain(<<"r", "e", "g", "i", "s", "t", "e", "r">>),
                         Plain(<<"m", "e", "s", "s", "a", "g", "e">>)}

\* C1: handling a frame that does not decode as an envelope leaves roster,
\* log and display mode unchanged and does not end the session.
C1_DiscardsUndecodable ==
    [][\A s \in {f \in InboundFrames : NotEnvelope(f)} :
          FrameArrives(s) => (StateUnchanged /\ ~panicked')]_vars

\* C2: handling a message frame whose data is null or is not a ChatMessage
\* leaves log and roster unchanged and does not end the session.
C2_DiscardsBadMessage ==
    [][\A s \in {f \in InboundFrames : BadMessage(f)} :
          FrameArrives(s) => (StateUnchanged /\ ~panicked')]_vars

\* C3: handling a well-formed frame whose messageType is none of users,
\* register, message leaves roster, log and display mode unchanged and does
\* not end the session.
C3_IgnoresUnknownKind ==
    [][\A s \in {f \in InboundFrames : UnknownKind(f)} :
          FrameArrives(s) => (StateUnchanged /\ ~panicked')]_vars

\* the users frame with dataArray l
UsersFrameOf(l) ==
    Doc(JObj([messageType |-> JStr(Plain(<<"u", "s", "e", "r", "s">>)),
              dataArray   |-> JArr([i \in 1..Len(l) |-> JStr(l[i])]),
              data        |-> JNull]))

\* C4: after a users frame with dataList l is handled, in any prior state,
\* the roster is exactly one participant per name of l, in l's order, each
\* with the colour of its name; nothing of the previous roster is kept.
C4_UsersReplacesRoster ==
    [][\A l \in NameLists :
          (last'.ret = "true" /\ messages' = messages /\ FrameArrives(UsersFrameOf(l))) =>
              /\ Len(users') = Len(l)
              /\ \A i \in 1..Len(l) :
                    users'[i] = [name |-> l[i], color |-> get_user_color(l[i])]]_vars

\* C4 witness: the roster [A,B] or any other has been replaced by exactly
\* [B,C] while the log is not empty.
C4_Witness ==
    /\ users = <<[name |-> B, color |-> "#F59E0B"], [name |-> C, color |-> "#EAB308"]>>
    /\ last = [msg |-> "HandleMsg", src |-> "bus", ret |-> "true"]
    /\ messages # <<>>

\* C5: as long as no ClearLog has been raised, the log is exactly the
\* ChatMessages of the valid message frames delivered, in arrival order.
C5_LogIsWhatArrived == (mounted /\ ~cleared) => messages = arrived

\* text trimmed of whitespace: the stretch text[i..j] that has only blanks
\* before and after it and neither starts nor ends with a blank
Trimmed(text) ==
    LET Cut(i, j) == [k \in 1..(j - i + 1) |-> text[i + k - 1]]
        ij == CHOOSE p \in (1..(Len(text) + 1)) \X (0..Len(text)) :
                 /\ p[2] >= p[1] - 1
                 /\ \A k \in 1..(p[1] - 1) : text[k] = " "
                 /\ \A k \in (p[2] + 1)..Len(text) : text[k] = " "
                 /\ p[2] >= p[1] => (text[p[1]] # " " /\ text[p[2]] # " ")
    IN  Cut(ij[1], ij[2])

\* a step that handles Msg::SubmitMessage
SubmitStep ==
    \/ ClickSend
    \/ KeyPress([key |-> "Enter", shift |-> FALSE])

\* the message envelope carrying the text v, as it goes on the wire
MessageFrameOf(v) ==
    Doc(JObj([messageType |-> JStr(Plain(<<"m", "e", "s", "s", "a", "g", "e">>)),
              dataArray   |-> JNull,
              data        |-> JStr(Plain(v))]))

\* C6: SubmitMessage calls send exactly when the trimmed text is not empty;
\* it then sends one message envelope with dataArray null and the trimmed
\* text as data; with an empty trimmed text nothing is sent and roster, log,
\* display mode and input buffer are unchanged.
C6_SubmitGuard ==
    [][SubmitStep =>
         IF Trimmed(chat_input) # <<>>
         THEN /\ Len(tx') = Len(tx) + 1
              /\ SubSeq(tx', 1, Len(tx)) = tx
              /\ tx'[Len(tx')].frame = MessageFrameOf(Trimmed(chat_input))
         ELSE /\ tx' = tx
              /\ StateUnchanged
              /\ chat_input' = chat_input]_vars

\* C6 witness: " hi " was submitted and went out as "hi".
C6_Witness ==
    /\ last.msg = "SubmitMessage"
    /\ Len(tx) = 2
    /\ tx[2].frame = MessageFrameOf(<<"h", "i">>)

\* C7: a SubmitMessage whose frame was sent leaves the input buffer empty,
\* whatever is delivered before or after it, and adds nothing to the log.
C7_SubmitClearsInput ==
    [][(SubmitStep /\ Len(tx') = Len(tx) + 1 /\ tx'[Len(tx')].ok) =>
          (chat_input' = <<>> /\ messages' = messages)]_vars

\* C7 witness: the user A sent "hi" with success and the input is empty,
\* while no frame echoing it has been delivered: the log holds a message
\* of C only.
C7_Witness ==
    /\ last.msg = "SubmitMessage"
    /\ Len(tx) = 2 /\ tx[2].ok
    /\ chat_input = <<>>
    /\ messages = <<[from |-> C, message |-> hi]>>

\* the register envelope carrying the name u, as it goes on the wire
RegisterFrameOf(u) ==
    Doc(JObj([messageType |-> JStr(Plain(<<"r", "e", "g", "i", "s", "t", "e", "r">>)),
              dataArray   |-> JNull,
              data        |-> JStr(u)]))

\* C8: once create has run and before any Msg is handled, exactly one
\* try_send has been made, of the register envelope with data = username and
\* dataArray null, and roster and log are empty and the display mode is Light.
C8_InitializeRegisters ==
    last.src = "create" =>
        /\ Len(tx) = 1
        /\ tx[1].frame = RegisterFrameOf(username)
        /\ users = <<>> /\ messages = <<>> /\ dark_mode = FALSE

\* C8 witness: create has run for the user A and its try_send failed.
C8_Witness == last.src = "create" /\ username = A /\ mounted /\ ~tx[1].ok

\* the frame is a register envelope
IsRegisterFrame(f) ==
    f.doc.obj["messageType"] = JStr(Plain(<<"r", "e", "g", "i", "s", "t", "e", "r">>))

\* C9: the component is created once and stays created; the only register
\* frame ever passed to try_send is the first frame of the session, and no
\* step of a created component, whatever the result of that first try_send,
\* sends a register frame or takes back a frame already sent.
C9_RegistersOnce ==
    [][/\ mounted => mounted'
       /\ \A i \in 1..Len(tx') : IsRegisterFrame(tx'[i].frame) <=> i = 1
       /\ mounted => SubSeq(tx', 1, Len(tx)) = tx]_vars

\* C9 witness: the register try_send failed, a message frame was sent
\* afterwards, and frames have been handled.
C9_Witness ==
    /\ mounted /\ Len(tx) = 2 /\ ~tx[1].ok
    /\ users # <<>> /\ messages # <<>>

\* the inbound frames that decode as a register envelope
InboundRegisterFrames ==
    {f \in InboundFrames : ~NotEnvelope(f) /\ KindOf(f) = "Register"}

\* C10: handling an inbound register frame, whatever its data and dataArray,
\* leaves roster, log and display mode unchanged, sends nothing, does not
\* panic, and update returns false (no re-render).
C10_InboundRegisterIgnored ==
    [][\A s \in InboundRegisterFrames :
          (last'.msg = "HandleMsg" /\ FrameArrives(s)) =>
              /\ StateUnchanged
              /\ tx' = tx
              /\ ~panicked'
              /\ last'.ret = "false"]_vars

\* C10 witness: a register frame has been handled in a session that has a
\* roster and a log.
C10_Witness ==
    /\ last = [msg |-> "HandleMsg", src |-> "bus", ret |-> "false"]
    /\ users # <<>> /\ messages # <<>> /\ ~panicked

\* C11: handling ClearChat, in any state of a live component (the log empty
\* or not), leaves the log empty, leaves roster and display mode as they
\* were, calls try_send not at all and does not panic; a valid message frame
\* handled next makes the log exactly that one message.
C11_ClearLog ==
    [][/\ ClickClear =>
            /\ messages' = <<>>
            /\ users' = users /\ dark_mode' = dark_mode
            /\ tx' = tx
            /\ ~panicked'
       /\ \A s \in ValidMessageFrames :
            (last.msg = "ClearChat" /\ last'.msg = "HandleMsg" /\ FrameArrives(s)) =>
                messages' = ValidMessageOf(s)]_vars

\* C11 witness: after a ClearChat in a session with a roster, in dark mode
\* and with a frame sent, a message frame was handled and the log is that
\* one message.
C11_Witness ==
    /\ cleared /\ ~panicked
    /\ last.msg = "HandleMsg"
    /\ messages = <<[from |-> C, message |-> hi]>>
    /\ users # <<>> /\ dark_mode /\ Len(tx) = 2

\* C12: handling ToggleDarkMode, in any state of a live component, turns
\* the display mode into the other one of the two (so a second toggle brings
\* back the mode before the first), leaves roster and log as they were,
\* calls try_send not at all and does not panic.
C12_ToggleFlips ==
    [][ClickToggleDark =>
          /\ dark_mode \in BOOLEAN
          /\ dark_mode' = ~dark_mode
          /\ users' = users /\ messages' = messages
          /\ tx' = tx
          /\ ~panicked']_vars

\* C12 witness: the mode is Light right after a toggle was handled, that is
\* after a second toggle, in a session with a roster and a log.
C12_Witness ==
    /\ last.msg = "ToggleDarkMode"
    /\ ~dark_mode
    /\ users # <<>> /\ messages # <<>>

\* the sum of the Unicode code points of the characters of cs:
\* U+0041 A, U+0051 Q, U+0069 i, U+00E9 é
CodePointSum(cs) ==
    LET count(c) == Cardinality({i \in 1..Len(cs) : cs[i] = c})
    IN  65 * count("A") + 81 * count("Q") + 105 * count("i") + 233 * count("é")

\* C13: get_user_color returns a colour for every name (no call panics):
\* the entry of the 16-entry palette at (sum of the code points of the name)
\* mod 16, counted from 0; the empty name gets the first entry "#EF4444";
\* names of equal sums mod 16, the same name twice included, get the same
\* colour.
C13_ColorFor ==
    /\ Len(colors) = 16
    /\ ~panicked
    /\ last.msg = "HandleMsg" => Len(users) = 2
    /\ \A k \in 1..Len(users) :
          LET name == users[k].name.plain
          IN  /\ users[k].color = colors[(CodePointSum(name) % 16) + 1]
              /\ name = <<>> => users[k].color = "#EF4444"
              /\ \A j \in 1..Len(users) :
                    CodePointSum(users[j].name.plain) % 16 = CodePointSum(name) % 16
                        => users[j].color = users[k].color

\* C13 witness: the names "é" (233) and "i" (105), both 9 mod 16, were
\* given the tenth colour of the palette.
C13_Witness ==
    /\ Len(users) = 2
    /\ users[1] = [name |-> Plain(<<"é">>), color |-> "#0EA5E9"]
    /\ users[2] = [name |-> Plain(<<"i">>), color |-> "#0EA5E9"]

\* the names of a roster, in its order
NamesOf(us) == [i \in 1..Len(us) |-> us[i].name]

\* C14: when a users frame is handled right after a frame that left the
\* roster with exactly the names of its dataList, in their order and with
\* their repeats (which is how the same users frame leaves it), roster, log
\* and display mode are after it what they were before it; for every
\* dataList, the empty one and one that repeats a name included.
C14_UsersIdempotent ==
    [][\A l \in NameLists :
          (/\ last.msg = "HandleMsg" /\ last.ret = "true"
           /\ last'.ret = "true"
           /\ NamesOf(users) = l
           /\ FrameArrives(UsersFrameOf(l))) => StateUnchanged]_vars

\* C14 witness: the users frame [A,A] was handled and the roster is the two
\* profiles of A, as it is however often that frame is handled again; the
\* log is not empty and the mode is Dark.
C14_Witness ==
    /\ last = [msg |-> "HandleMsg", src |-> "bus", ret |-> "true"]
    /\ users = <<[name |-> A, color |-> "#F97316"], [name |-> A, color |-> "#F97316"]>>
    /\ messages # <<>> /\ dark_mode

\* C15: a step whose try_send fails (in create or in SubmitMessage) does not
\* panic, leaves the component created and roster, log and display mode as
\* they were, and takes back nothing sent before; and try_send is called
\* only by create and by a SubmitMessage with a non-blank input, which
\* leaves the input empty: no other step sends, so a frame that failed is
\* neither sent again nor kept for later.
C15_SendFailureNonFatal ==
    [][/\ (Len(tx') = Len(tx) + 1 /\ ~tx'[Len(tx')].ok) =>
            /\ ~panicked' /\ mounted'
            /\ StateUnchanged
            /\ SubSeq(tx', 1, Len(tx)) = tx
       /\ tx' # tx =>
            \/ create
            \/ SubmitStep /\ Trimmed(chat_input) # <<>> /\ chat_input' = <<>>]_vars

\* C15 witness: the register frame and the message frame both failed to be
\* sent, and the session went on to handle a message frame.
C15_Witness ==
    /\ Len(tx) = 2 /\ ~tx[1].ok /\ ~tx[2].ok
    /\ ~panicked
    /\ last = [msg |-> "HandleMsg", src |-> "bus", ret |-> "true"]
    /\ messages # <<>>

\* C16: in every reachable state no two entries of the roster have the same
\* name, whatever users frames have been handled.
C16_RosterNamesUnique ==
    \A i, j \in 1..Len(users) : users[i].name = users[j].name => i = j

\* the inbound frames that decode as a users envelope
InboundUsersFrames ==
    {f \in InboundFrames : ~NotEnvelope(f) /\ KindOf(f) = "Users"}

\* C17: in every step, the roster changes only when a users frame is
\* handled, and a users frame handled leaves log and display mode as they
\* were; the log changes only by one entry appended at its end when a valid
\* message frame is handled, or by becoming empty on ClearChat; the display
\* mode changes only on ToggleDarkMode.
C17_OwnMutators ==
    [][/\ users' # users =>
            \E s \in InboundUsersFrames : FrameArrives(s)
       /\ (messages' # messages \/ dark_mode' # dark_mode) =>
            ~\E s \in InboundUsersFrames : FrameArrives(s)
       /\ messages' # messages =>
            \/ \E s \in ValidMessageFrames :
                  /\ FrameArrives(s)
                  /\ messages' = messages \o ValidMessageOf(s)
            \/ ClickClear /\ messages' = <<>>
       /\ dark_mode' # dark_mode => ClickToggleDark]_vars

\* C17 witness: a users frame made the roster [B,C] while the log keeps the
\* message of A, who is not in the roster; the mode is Dark.
C17_Witness ==
    /\ last = [msg |-> "HandleMsg", src |-> "bus", ret |-> "true"]
    /\ NamesOf(users) = <<B, C>>
    /\ messages = <<[from |-> A, message |-> hi]>>
    /\ dark_mode

\* every entry of the log is shown in the colour of its sender's name
LogColours ==
    \A k \in 1..Len(messages) :
        user_color(messages[k]) = get_user_color(messages[k].from)

\* C18: a valid message frame whose `from` names nobody in the roster is
\* handled without panic: its message is appended to the log and the roster
\* stays as it was; and after every step the colour view shows with each
\* entry m of the log, the roster's or the computed one, is
\* get_user_color(m.from).
C18_UnknownSender ==
    [][/\ \A s \in ValidMessageFrames :
            (/\ last'.msg = "HandleMsg"
             /\ \A i \in 1..Len(users) : users[i].name # ValidMessageOf(s)[1].from
             /\ FrameArrives(s)) =>
                /\ messages' = Append(messages, ValidMessageOf(s)[1])
                /\ users' = users
                /\ ~panicked'
       /\ LogColours']_vars

\* C18 witness: the log holds a message of A, who is in the roster [A,B],
\* and after it a message of C, who is not.
C18_Witness ==
    /\ last = [msg |-> "HandleMsg", src |-> "bus", ret |-> "true"]
    /\ NamesOf(users) = <<A, B>>
    /\ messages = <<[from |-> A, message |-> hi], [from |-> C, message |-> hi]>>

\* the frame is a message envelope
IsMessageFrame(f) ==
    f.doc.obj["messageType"] = JStr(Plain(<<"m", "e", "s", "s", "a", "g", "e">>))

TrimmedTexts == {Trimmed(text) : text \in InputTexts} \ {<<>>}

\* the message frames passed to try_send carry the trimmed text as it is
OutboundIsText ==
    \A i \in 1..Len(tx) :
        IsMessageFrame(tx[i].frame) =>
            /\ tx[i].frame.doc.obj["dataArray"] = JNull
            /\ \E v \in TrimmedTexts : tx[i].frame.doc.obj["data"] = JStr(Plain(v))
            /\ ValidMessageOf(tx[i].frame) = <<>>

C20_OtherKeysNoEffect ==
    [][\A e \in Keys :
          KeyPress(e) =>
              IF e.key = "Enter" /\ ~e.shift
              THEN last'.msg = "SubmitMessage"
              ELSE /\ last'.msg # "SubmitMessage"
                   /\ StateUnchanged
                   /\ tx' = tx
                   /\ ~panicked']_vars

====
